---- MODULE Spec2Model ----
(***************************************************************************)
(* A model of the image preview controller of src/image/src/               *)
(* ImagePreview.tsx: the show/close lifecycle with its keydown listener,   *)
(* the drag (pan) session, the zoom ladder, rotation, the double-click     *)
(* toggle, resize-to-original and the boundary clamp getDerivedOffset.     *)
(*                                                                         *)
(* Numbers.  JavaScript numbers are modelled as exact rationals <<n, d>>   *)
(* (d > 0, lowest terms); floating-point rounding is not modelled.         *)
(* scaleExp and rotate are integers.                                       *)
(*                                                                         *)
(* Atomicity.  Every handler runs to completion on the UI thread.  The     *)
(* watch(mergedShowRef) callback is flushed by Vue in the microtask that   *)
(* follows the handler, before any other event is delivered, so it is      *)
(* part of the action that changed the merged show flag.                   *)
(*                                                                         *)
(* Environment.  Toolbar clicks, double clicks and pointer-down reach the  *)
(* component only while it is alive and shown; a primary-button press is   *)
(* not followed by another one before its release; the pointer-up of a     *)
(* drag happens where the last pointer event of the drag left the pointer; *)
(* the host supplies the onPrev, onNext, onClose and onUpdateShow hooks.   *)
(*                                                                         *)
(* Specifications.  Spec is the whole machine, controlled or uncontrolled, *)
(* with drags to the right and down.  SpecPan and SpecTurns open an        *)
(* uncontrolled preview and drive it with the mouse only, with drags both  *)
(* ways: SpecPan in a viewport the image fits at its natural size,         *)
(* SpecTurns with the rotation counter running a full turn either way.     *)
(* SpecClamp applies the boundary clamp to arbitrary inputs.               *)
(***************************************************************************)
EXTENDS Integers, Naturals, Sequences, FiniteSets, TLC

---------------------------------------------------------------------------
(* Bounds of the model *)

\* scaleExp is capped to -MinExp .. MaxExp: the code lets it grow without
\* limit in both directions.
MaxExp == 3

MinExp == 3

\* The rotation counter is capped to MinTurns .. MaxTurns quarter turns.
MaxTurns == 1

MinTurns == 0

\* The cap of the rotation counter, in quarter turns either way, where the
\* image is turned all the way round
LongTurns == 4

---------------------------------------------------------------------------
(* Exact rational arithmetic *)

Abs(n) == IF n < 0 THEN -n ELSE n

RECURSIVE GCD(_, _)
GCD(a, b) == IF b = 0 THEN a ELSE GCD(b, a % b)

Norm(n, d) ==
    LET s == IF d < 0 THEN -1 ELSE 1
        g == GCD(Abs(n), Abs(d))
    IN  <<(s * n) \div g, (s * d) \div g>>

R(n) == <<n, 1>>

RAdd(a, b) == Norm(a[1] * b[2] + b[1] * a[2], a[2] * b[2])
RNeg(a) == <<-a[1], a[2]>>
RSub(a, b) == RAdd(a, RNeg(b))
RMul(a, b) == Norm(a[1] * b[1], a[2] * b[2])
RDiv(a, b) == Norm(a[1] * b[2], a[2] * b[1])
RLt(a, b) == a[1] * b[2] < b[1] * a[2]
RLe(a, b) == a[1] * b[2] <= b[1] * a[2]
RMax(a, b) == IF RLt(a, b) THEN b ELSE a
RMin(a, b) == IF RLt(b, a) THEN b ELSE a

\* a / 0 for a > 0 is Infinity, which RDiv yields as <<1, 0>>; the
\* comparisons above order it after every other number
Infinity == <<1, 0>>
Finite(a) == a[2] # 0

RECURSIVE IntPow(_, _)
IntPow(b, e) == IF e = 0 THEN 1 ELSE b * IntPow(b, e - 1)

---------------------------------------------------------------------------
(* Program constants *)

BLEEDING == 32

\* scaleRadix = 1.5 = 3/2
scaleRadix == <<3, 2>>

\* scaleRadix ** e
RadixPow(e) ==
    IF e >= 0
    THEN <<IntPow(scaleRadix[1], e), IntPow(scaleRadix[2], e)>>
    ELSE <<IntPow(scaleRadix[2], -e), IntPow(scaleRadix[1], -e)>>

\* The lower limit of zoomOut, 0.5
MinScale == <<1, 2>>

---------------------------------------------------------------------------
(* Inputs *)

\* window.innerWidth x window.innerHeight.  The image below is laid out
\* 64 x 4 in this viewport (its natural size is 1.25 times that), so that its
\* box is as wide as the viewport at scale 1.5, and as high as the viewport
\* when turned at scale 2.25.
Viewports == { [w |-> 96, h |-> 144] }

\* A viewport the image below fits in at its natural size, 80 x 5
PanViewports == { [w |-> 112, h |-> 144] }

\* naturalWidth x naturalHeight of the images: the image of the gallery,
\* a wide one whose box is 1200 wide at its natural size, and a photograph
\* twice the size of a viewport of 1000 x 800
Images == << [w |-> 80, h |-> 5], [w |-> 1200, h |-> 5],
            [w |-> 2000, h |-> 1600] >>

\* The images the gallery's hooks can name
ImageIds == { 1 }

\* clientX, clientY of pointer-down events.  The drag arithmetic uses only
\* differences of pointer positions, so one place to press loses nothing.
DownPointers == { <<0, 0>> }

\* clientX, clientY of pointer-move events: back where the button was
\* pressed, or right and down of it
Pointers == { <<0, 0>>, <<24, 24>> }

\* The same, and left and up of where the button was pressed
WidePointers == { <<0, 0>>, <<24, 24>>, <<-24, -24>> }

---------------------------------------------------------------------------
(* State *)

VARIABLES
    alive,              \* the component is mounted (not yet onBeforeUnmount)
    showProp,           \* props.show: "undefined", "true" or "false"
    uncontrolledShow,   \* uncontrolledShowRef
    displayed,          \* displayedRef
    keydownOn,          \* handleKeydown is subscribed on document
    win,                \* window.innerWidth / innerHeight
    img,                \* the image props.src names (an index of Images)
    offsetX, offsetY,
    startOffsetX, startOffsetY,
    mouseDownClientX, mouseDownClientY,
    dragging,
    scaleExp, scale, rotate,
    mouseListeners,     \* handleMouseMove / handleMouseUp are on document
    framePending,       \* beforeNextFrameOnce holds derivePreviewStyle
    pointer,            \* where the last pointer event of the drag was
    style,              \* what preview.style.cssText makes the <img> show
    calls               \* the hooks the last handler invoked, in order

vars == << alive, showProp, uncontrolledShow, displayed, keydownOn, win, img,
           offsetX, offsetY, startOffsetX, startOffsetY,
           mouseDownClientX, mouseDownClientY, dragging,
           scaleExp, scale, rotate, mouseListeners, framePending, pointer,
           style, calls >>

showVars == << showProp, uncontrolledShow, displayed, keydownOn >>
dragVars == << startOffsetX, startOffsetY,
               mouseDownClientX, mouseDownClientY, dragging, mouseListeners,
               pointer >>
offsetVars == << offsetX, offsetY >>
scaleVars == << scaleExp, scale >>

\* startX and startY are assigned only by handlePreviewMousedown, together
\* with the variables they are computed from: clientX - offsetX, where
\* mouseDownClientX = clientX and startOffsetX = offsetX (and all start at 0).
startX == RSub(mouseDownClientX, startOffsetX)
startY == RSub(mouseDownClientY, startOffsetY)

\* useMergedState(controlledShowRef, uncontrolledShowRef)
Merged(sp, us) == IF sp = "undefined" THEN us ELSE sp = "true"

mergedShow == Merged(showProp, uncontrolledShow)

\* previewRef.value is an element: the render function emits the <img>
\* while mergedShow or displayed holds, and nothing after unmount.
Mounted(al, ms, disp) == al /\ (ms \/ disp)

previewRef == Mounted(alive, mergedShow, displayed)

\* An <img> element that has just been created has no inline style: it is
\* shown untransformed.
FreshStyle ==
    [ tx |-> R(0), ty |-> R(0), rot |-> 0, sc |-> R(1),
      cursor |-> "", transition |-> TRUE ]

NoPointer == <<0, 0>>

---------------------------------------------------------------------------
(* Geometry *)

\* getOrignalImageSizeScale, given whether previewRef is set
OrignalImageSizeScale(preview, i, vp) ==
    IF ~preview THEN R(1)
    ELSE LET heightScale == RDiv(R(Images[i].h), R(vp.h - BLEEDING))
             widthScale == RDiv(R(Images[i].w), R(vp.w - BLEEDING))
         IN  IF RLt(heightScale, R(1)) /\ RLt(widthScale, R(1))
             THEN R(1)
             ELSE RMax(heightScale, widthScale)

\* getMaxScale, given whether previewRef is set
MaxScale(preview, i, vp) ==
    IF ~preview THEN R(1)
    ELSE LET heightMaxScale ==
                 RMax(R(1), RDiv(R(Images[i].h), R(vp.h - BLEEDING)))
             widthMaxScale ==
                 RMax(R(1), RDiv(R(Images[i].w), R(vp.w - BLEEDING)))
         IN  RMax(RMax(R(3), RMul(heightMaxScale, R(2))),
                  RMul(widthMaxScale, R(2)))

\* The size the <img> is laid out at before its transform: its natural size
\* shrunk, keeping its proportions, to fit the viewport less BLEEDING.
LayoutSize(i, vp) ==
    LET fit == OrignalImageSizeScale(TRUE, i, vp)
    IN  [ w |-> RDiv(R(Images[i].w), fit), h |-> RDiv(R(Images[i].h), fit) ]

\* preview.getBoundingClientRect(): the laid-out box, centred in the
\* viewport, scaled, turned by rot degrees and translated by (tx, ty).
BoundingClientRect(st, i, vp) ==
    LET lay == LayoutSize(i, vp)
        upright == (st.rot % 180) = 0
        bw == RMul(IF upright THEN lay.w ELSE lay.h, st.sc)
        bh == RMul(IF upright THEN lay.h ELSE lay.w, st.sc)
        cx == RAdd(RDiv(R(vp.w), R(2)), st.tx)
        cy == RAdd(RDiv(R(vp.h), R(2)), st.ty)
    IN  [ width |-> bw, height |-> bh,
          left |-> RSub(cx, RDiv(bw, R(2))),
          right |-> RAdd(cx, RDiv(bw, R(2))),
          top |-> RSub(cy, RDiv(bh, R(2))),
          bottom |-> RAdd(cy, RDiv(bh, R(2))) ]

---------------------------------------------------------------------------
(* The boundary clamp *)

\* getMoveStrategy
MoveStrategy(mouseUpClientX, mouseUpClientY, downX, downY) ==
    LET deltaHorizontal == RSub(downX, mouseUpClientX)
        deltaVertical == RSub(downY, mouseUpClientY)
    IN  [ moveVerticalDirection |->
              IF RLt(R(0), deltaVertical)
              THEN "verticalTop" ELSE "verticalBottom",
          moveHorizontalDirection |->
              IF RLt(R(0), deltaHorizontal)
              THEN "horizontalLeft" ELSE "horizontalRight",
          deltaHorizontal |-> deltaHorizontal,
          deltaVertical |-> deltaVertical ]

\* getDerivedOffset() called without a strategy: `moveStrategy || {}` leaves
\* the directions undefined and `?? 0` turns the undefined deltas into 0.
NoStrategy ==
    [ moveVerticalDirection |-> "undefined",
      moveHorizontalDirection |-> "undefined",
      deltaHorizontal |-> R(0), deltaVertical |-> R(0) ]

\* nextOffsetX without the case of a box that fits the viewport
C6_NextOffsetX_noFit(pbox, vp, strategy, sOffX) ==
    LET half == RDiv(RSub(pbox.width, R(vp.w)), R(2))
    IN  IF RLt(R(0), pbox.left) THEN half
        ELSE IF RLt(pbox.right, R(vp.w)) THEN RNeg(half)
        ELSE IF strategy.moveHorizontalDirection = "horizontalRight"
             THEN RMin(half, RSub(sOffX, strategy.deltaHorizontal))
             ELSE RMax(RNeg(half), RSub(sOffX, strategy.deltaHorizontal))

\* nextOffsetX with the two directions exchanged
C18_NextOffsetX_swapped(pbox, vp, strategy, sOffX) ==
    LET half == RDiv(RSub(pbox.width, R(vp.w)), R(2))
    IN  IF RLe(pbox.width, R(vp.w)) THEN R(0)
        ELSE IF RLt(R(0), pbox.left) THEN half
        ELSE IF RLt(pbox.right, R(vp.w)) THEN RNeg(half)
        ELSE IF strategy.moveHorizontalDirection = "horizontalRight"
             THEN RMax(RNeg(half), RSub(sOffX, strategy.deltaHorizontal))
             ELSE RMin(half, RSub(sOffX, strategy.deltaHorizontal))

\* nextOffsetX of getDerivedOffset
NextOffsetX(pbox, vp, strategy, sOffX) ==
    LET half == RDiv(RSub(pbox.width, R(vp.w)), R(2))
    IN  IF RLe(pbox.width, R(vp.w)) THEN R(0)
        ELSE IF RLt(R(0), pbox.left) THEN half
        ELSE IF RLt(pbox.right, R(vp.w)) THEN RNeg(half)
        ELSE IF strategy.moveHorizontalDirection = "horizontalRight"
             THEN RMin(half, RSub(sOffX, strategy.deltaHorizontal))
             ELSE RMax(RNeg(half), RSub(sOffX, strategy.deltaHorizontal))

\* nextOffsetY closing a gap at the bottom like a gap at the top
C7_NextOffsetY_sameSign(pbox, vp, strategy, sOffY) ==
    LET half == RDiv(RSub(pbox.height, R(vp.h)), R(2))
    IN  IF RLe(pbox.height, R(vp.h)) THEN R(0)
        ELSE IF RLt(R(0), pbox.top) THEN half
        ELSE IF RLt(pbox.bottom, R(vp.h)) THEN half
        ELSE IF strategy.moveVerticalDirection = "verticalBottom"
             THEN RMin(half, RSub(sOffY, strategy.deltaVertical))
             ELSE RMax(RNeg(half), RSub(sOffY, strategy.deltaVertical))

\* nextOffsetY of getDerivedOffset
NextOffsetY(pbox, vp, strategy, sOffY) ==
    LET half == RDiv(RSub(pbox.height, R(vp.h)), R(2))
    IN  IF RLe(pbox.height, R(vp.h)) THEN R(0)
        ELSE IF RLt(R(0), pbox.top) THEN half
        ELSE IF RLt(pbox.bottom, R(vp.h)) THEN RNeg(half)
        ELSE IF strategy.moveVerticalDirection = "verticalBottom"
             THEN RMin(half, RSub(sOffY, strategy.deltaVertical))
             ELSE RMax(RNeg(half), RSub(sOffY, strategy.deltaVertical))

\* getDerivedOffset: measured on the element as it is styled now
DerivedOffset(preview, st, i, vp, strategy, sOffX, sOffY) ==
    IF ~preview THEN [ offsetX |-> R(0), offsetY |-> R(0) ]
    ELSE LET pbox == BoundingClientRect(st, i, vp)
         IN  [ offsetX |-> NextOffsetX(pbox, vp, strategy, sOffX),
               offsetY |-> NextOffsetY(pbox, vp, strategy, sOffY) ]

\* The style derivePreviewStyle(transition) writes
PreviewStyle(ox, oy, rot, sc, drag, transition) ==
    [ tx |-> ox, ty |-> oy, rot |-> rot, sc |-> sc,
      cursor |-> IF drag THEN "grabbing" ELSE "grab",
      transition |-> IF drag THEN FALSE ELSE transition ]

\* derivePreviewStyle(transition): the styles it writes, none without previewRef
Derived(preview, ox, oy, rot, sc, drag, transition) ==
    IF preview THEN << PreviewStyle(ox, oy, rot, sc, drag, transition) >>
    ELSE << >>

\* The element's style after a handler wrote the styles rs, in order
Styled(st, rs) == IF rs = << >> THEN st ELSE rs[Len(rs)]

\* The floor of the logarithm in place of its ceiling: the greatest exponent
\* e with scaleRadix ** e <= s
C15_CeilLogRadix_floor(s) ==
    CHOOSE e \in 0 .. MaxExp + 1 :
        /\ RLe(RadixPow(e), s)
        /\ \A f \in 0 .. MaxExp + 1 : RLe(RadixPow(f), s) => f <= e

\* Math.ceil(Math.log(s) / Math.log(scaleRadix)) for s >= 1: the least
\* exponent e with scaleRadix ** e >= s
CeilLogRadix(s) ==
    CHOOSE e \in 0 .. MaxExp + 1 :
        /\ RLe(s, RadixPow(e))
        /\ \A f \in 0 .. MaxExp + 1 : RLe(s, RadixPow(f)) => e <= f

\* The hooks a handler invoked
Handler(cs) == calls' = cs

---------------------------------------------------------------------------
(* Initial states *)

\* props.show and props.defaultShow at setup
ShowConfigs == { <<"undefined", FALSE>>, <<"true", FALSE>> }

\* The state after setup() in a viewport of vps, with props.show and
\* props.defaultShow drawn from configs
InitIn(vps, configs) ==
    /\ alive = TRUE
    /\ \E c \in configs : showProp = c[1] /\ uncontrolledShow = c[2]
    /\ displayed = FALSE
    /\ keydownOn = FALSE
    /\ win \in vps
    /\ img \in ImageIds
    /\ offsetX = R(0) /\ offsetY = R(0)
    /\ startOffsetX = R(0) /\ startOffsetY = R(0)
    /\ mouseDownClientX = R(0) /\ mouseDownClientY = R(0)
    /\ dragging = FALSE
    /\ scaleExp = 0 /\ scale = R(1) /\ rotate = 0
    /\ mouseListeners = FALSE
    /\ framePending = FALSE
    /\ pointer = NoPointer
    /\ style = FreshStyle
    /\ calls = << >>

Init == InitIn(Viewports, ShowConfigs)

---------------------------------------------------------------------------
(* Show, close, teardown *)

\* The exposed doUpdateShow(true) of an uncontrolled preview (the thumbnail
\* was clicked), followed by the watch(mergedShowRef) callback it triggers:
\* doUpdateShow(true) again and the keydown subscription.
DoUpdateShowTrue ==
    /\ alive /\ showProp = "undefined" /\ ~mergedShow
    /\ uncontrolledShow' = TRUE
    /\ displayed' = TRUE
    /\ keydownOn' = TRUE
    /\ Handler(<< "onUpdateShow(true)", "onUpdateShow(true)" >>)
    /\ UNCHANGED << alive, showProp, win, img, dragVars, offsetVars, scaleVars,
                    rotate, framePending, style >>

\* The parent changes props.show of a controlled preview; the
\* watch(mergedShowRef) callback runs.
SetShowProp ==
    /\ alive /\ showProp # "undefined"
    /\ \E v \in { "true", "false" } :
        /\ v # showProp
        /\ showProp' = v
        /\ IF v = "true"
           THEN /\ uncontrolledShow' = TRUE
                /\ displayed' = TRUE
                /\ keydownOn' = TRUE
                /\ Handler(<< "onUpdateShow(true)" >>)
                /\ style' = style
           ELSE /\ keydownOn' = FALSE
                /\ UNCHANGED << uncontrolledShow, displayed >>
                /\ Handler(<< >>)
                /\ style' = IF displayed THEN style ELSE FreshStyle
    /\ UNCHANGED << alive, win, img, dragVars, offsetVars, scaleVars, rotate,
                    framePending >>

\* close() without the test of the merged show flag
C11_CloseBody_unguarded ==
    /\ uncontrolledShow' = FALSE
    /\ displayed' = TRUE
    /\ \E obey \in BOOLEAN :
           showProp' = IF showProp # "undefined" /\ obey
                       THEN "false" ELSE showProp
    /\ keydownOn' = IF Merged(showProp', FALSE) THEN keydownOn ELSE FALSE
    /\ Handler(<< "onClose", "onUpdateShow(false)" >>)
    /\ UNCHANGED << alive, win, img, dragVars, offsetVars, scaleVars,
                    rotate, framePending, style >>

\* close(), then the watch(mergedShowRef) callback if the merged flag
\* changed.  The parent of a controlled preview answers the callbacks by
\* setting props.show to false, or not.
CloseBody ==
    IF mergedShow
    THEN /\ uncontrolledShow' = FALSE
         /\ displayed' = TRUE
         /\ \E obey \in BOOLEAN :
                showProp' = IF showProp # "undefined" /\ obey
                            THEN "false" ELSE showProp
         /\ keydownOn' = IF Merged(showProp', FALSE) THEN keydownOn ELSE FALSE
         /\ Handler(<< "onClose", "onUpdateShow(false)" >>)
         /\ UNCHANGED << alive, win, img, dragVars, offsetVars, scaleVars,
                         rotate, framePending, style >>
    ELSE /\ Handler(<< >>)
         /\ UNCHANGED << alive, showVars, win, img, dragVars, offsetVars,
                         scaleVars, rotate, framePending, style >>

\* close() from the overlay, the close icon or the exposed method
Close == alive /\ CloseBody

\* handleKeydown, case 'Escape'
KeydownEscape == keydownOn /\ CloseBody

\* handleAfterLeave: the leave transition of a preview that was shown ended
HandleAfterLeave ==
    /\ alive /\ ~mergedShow /\ displayed
    /\ scale' = R(1)
    /\ scaleExp' = 0
    /\ rotate' = 0
    /\ displayed' = FALSE
    /\ style' = FreshStyle
    /\ Handler(<< >>)
    /\ UNCHANGED << alive, showProp, uncontrolledShow, keydownOn, win, img,
                    dragVars, offsetVars, framePending >>

\* onBeforeUnmount, and the removal of the component's elements
Unmount ==
    /\ alive
    /\ alive' = FALSE
    /\ keydownOn' = FALSE
    /\ style' = FreshStyle
    /\ Handler(<< >>)
    /\ UNCHANGED << showProp, uncontrolledShow, displayed, win, img, dragVars,
                    offsetVars, scaleVars, rotate, framePending >>

---------------------------------------------------------------------------
(* Drag *)

\* The user can reach the image and the toolbar with the mouse
Clickable == alive /\ mergedShow /\ ~dragging

\* handlePreviewMousedown
HandlePreviewMousedown ==
    /\ Clickable
    /\ \E p \in DownPointers, button \in { 0, 2 } :
        IF button # 0
        THEN /\ Handler(<< >>)
             /\ UNCHANGED << dragVars, style >>
        ELSE LET rs == Derived(previewRef, offsetX, offsetY, rotate, scale,
                               TRUE, TRUE)
             IN  /\ dragging' = TRUE
                 /\ startOffsetX' = offsetX
                 /\ startOffsetY' = offsetY
                 /\ mouseDownClientX' = R(p[1])
                 /\ mouseDownClientY' = R(p[2])
                 /\ mouseListeners' = TRUE
                 /\ pointer' = p
                 /\ style' = Styled(style, rs)
                 /\ Handler(<< >>)
    /\ UNCHANGED << alive, showVars, win, img, offsetVars, scaleVars, rotate,
                    framePending >>

\* handleMouseMove, for a pointer-move event at a position of ps
HandleMouseMoveTo(ps) ==
    /\ mouseListeners
    /\ \E p \in ps :
        /\ p # pointer
        /\ pointer' = p
        /\ offsetX' = RSub(R(p[1]), startX)
        /\ offsetY' = RSub(R(p[2]), startY)
    /\ framePending' = TRUE
    /\ Handler(<< >>)
    /\ UNCHANGED << alive, showVars, win, img, startOffsetX, startOffsetY,
                    mouseDownClientX, mouseDownClientY, dragging,
                    mouseListeners, scaleVars, rotate, style >>

HandleMouseMove == HandleMouseMoveTo(Pointers)

\* The frame callback beforeNextFrameOnce scheduled: derivePreviewStyle()
Frame ==
    /\ framePending
    /\ framePending' = FALSE
    /\ LET rs == Derived(previewRef, offsetX, offsetY, rotate, scale,
                         dragging, TRUE)
       IN  /\ style' = Styled(style, rs)
           /\ Handler(<< >>)
    /\ UNCHANGED << alive, showVars, win, img, dragVars, offsetVars,
                    scaleVars, rotate >>

\* handleMouseUp
HandleMouseUp ==
    /\ mouseListeners
    /\ mouseListeners' = FALSE
    /\ dragging' = FALSE
    /\ pointer' = NoPointer
    /\ LET moveStrategy == MoveStrategy(R(pointer[1]), R(pointer[2]),
                                        mouseDownClientX, mouseDownClientY)
           offset == DerivedOffset(previewRef, style, img, win, moveStrategy,
                                   startOffsetX, startOffsetY)
           rs == Derived(previewRef, offset.offsetX, offset.offsetY, rotate,
                         scale, FALSE, TRUE)
       IN  /\ offsetX' = offset.offsetX
           /\ offsetY' = offset.offsetY
           /\ style' = Styled(style, rs)
           /\ Handler(<< >>)
    /\ UNCHANGED << alive, showVars, win, img, startOffsetX, startOffsetY,
                    mouseDownClientX, mouseDownClientY, scaleVars, rotate,
                    framePending >>

---------------------------------------------------------------------------
(* Scale and rotation *)

\* A double click that always goes back to scale 1
C14_DblclickScale_toOne(s, originalImageSizeScale) == R(1)

\* scale === originalImageSizeScale ? 1 : originalImageSizeScale
DblclickScale(s, originalImageSizeScale) ==
    IF s = originalImageSizeScale THEN R(1) ELSE originalImageSizeScale

\* handlePreviewDblclick
HandlePreviewDblclick ==
    /\ Clickable
    /\ LET originalImageSizeScale == OrignalImageSizeScale(previewRef, img, win)
           s == DblclickScale(scale, originalImageSizeScale)
           rs == Derived(previewRef, offsetX, offsetY, rotate, s, dragging, TRUE)
       IN  /\ scale' = s
           /\ style' = Styled(style, rs)
           /\ Handler(<< >>)
    /\ UNCHANGED << alive, showVars, win, img, dragVars, offsetVars, scaleExp,
                    rotate, framePending >>

\* A switch that keeps the rotation
C4_SwitchBody_keepsRotation(hook) ==
    /\ scale' = R(1)
    /\ scaleExp' = 0
    /\ \E i \in ImageIds :
        /\ img' = i
        /\ style' = IF i = img THEN style ELSE FreshStyle
    /\ Handler(<< hook >>)
    /\ UNCHANGED << alive, showVars, win, dragVars, offsetVars, rotate,
                    framePending >>

\* resetScale(); rotate = 0; then the hook, which lets the gallery name
\* another image: a new src replaces the <img> element (key = src).
SwitchBody(hook) ==
    /\ scale' = R(1)
    /\ scaleExp' = 0
    /\ rotate' = 0
    /\ \E i \in ImageIds :
        /\ img' = i
        /\ style' = IF i = img THEN style ELSE FreshStyle
    /\ Handler(<< hook >>)
    /\ UNCHANGED << alive, showVars, win, dragVars, offsetVars, framePending >>

\* handleSwitchPrev
HandleSwitchPrev == Clickable /\ SwitchBody("onPrev")

\* handleSwitchNext
HandleSwitchNext == Clickable /\ SwitchBody("onNext")

\* handleKeydown, cases 'ArrowLeft' and 'ArrowRight': the hook alone
KeydownSwitchBody(hook) ==
    /\ \E i \in ImageIds :
        /\ img' = i
        /\ style' = IF i = img THEN style ELSE FreshStyle
    /\ Handler(<< hook >>)
    /\ UNCHANGED << alive, showVars, win, dragVars, offsetVars, scaleVars,
                    rotate, framePending >>

KeydownArrowLeft ==
    keydownOn /\ KeydownSwitchBody("onPrev")

KeydownArrowRight ==
    keydownOn /\ KeydownSwitchBody("onNext")

\* handleKeydown, case ' ': preventDefault only
KeydownSpace ==
    /\ keydownOn
    /\ Handler(<< >>)
    /\ UNCHANGED << alive, showVars, win, img, dragVars, offsetVars,
                    scaleVars, rotate, framePending, style >>

\* The rotation counter kept within a full turn
C9_RotateBody_modulo(by) ==
    /\ rotate' = (rotate + by) % 360
    /\ LET rs == Derived(previewRef, offsetX, offsetY, rotate', scale,
                         dragging, TRUE)
       IN  /\ style' = Styled(style, rs)
           /\ Handler(<< >>)
    /\ UNCHANGED << alive, showVars, win, img, dragVars, offsetVars,
                    scaleVars, framePending >>

\* rotate += by; derivePreviewStyle()
RotateBody(by) ==
    /\ rotate' = rotate + by
    /\ LET rs == Derived(previewRef, offsetX, offsetY, rotate', scale,
                         dragging, TRUE)
       IN  /\ style' = Styled(style, rs)
           /\ Handler(<< >>)
    /\ UNCHANGED << alive, showVars, win, img, dragVars, offsetVars,
                    scaleVars, framePending >>

\* rotateCounterclockwise, while the counter is above -turns quarter turns
RotateCounterclockwiseWithin(turns) ==
    /\ Clickable
    /\ rotate > -90 * turns
    /\ RotateBody(-90)

\* rotateClockwise, while the counter is below turns quarter turns
RotateClockwiseWithin(turns) ==
    /\ Clickable
    /\ rotate < 90 * turns
    /\ RotateBody(90)

RotateCounterclockwise == RotateCounterclockwiseWithin(MinTurns)

RotateClockwise == RotateClockwiseWithin(MaxTurns)

\* zoomIn without the cap
C2_ZoomInScale_uncapped(maxScale, e) == RadixPow(e)

\* Math.min(maxScale, scaleRadix ** scaleExp)
ZoomInScale(maxScale, e) == RMin(maxScale, RadixPow(e))

\* Math.max(0.5, scaleRadix ** scaleExp)
ZoomOutScale(e) == RMax(MinScale, RadixPow(e))

\* A zoomIn that centres the image again
C21_ZoomInBody_centred ==
    LET maxScale == MaxScale(previewRef, img, win)
    IN  IF RLt(scale, maxScale)
        THEN /\ scaleExp < MaxExp
             /\ scaleExp' = scaleExp + 1
             /\ scale' = ZoomInScale(maxScale, scaleExp')
             /\ offsetX' = R(0)
             /\ offsetY' = R(0)
             /\ LET rs == Derived(previewRef, R(0), R(0), rotate, scale',
                                  dragging, TRUE)
                IN  /\ style' = Styled(style, rs)
                    /\ Handler(<< >>)
             /\ UNCHANGED << alive, showVars, win, img, dragVars, rotate,
                             framePending >>
        ELSE /\ Handler(<< >>)
             /\ UNCHANGED << alive, showVars, win, img, dragVars, offsetVars,
                             scaleVars, rotate, framePending, style >>

\* zoomIn
ZoomInBody ==
    LET maxScale == MaxScale(previewRef, img, win)
    IN  IF RLt(scale, maxScale)
        THEN /\ scaleExp < MaxExp
             /\ scaleExp' = scaleExp + 1
             /\ scale' = ZoomInScale(maxScale, scaleExp')
             /\ LET rs == Derived(previewRef, offsetX, offsetY, rotate, scale',
                                  dragging, TRUE)
                IN  /\ style' = Styled(style, rs)
                    /\ Handler(<< >>)
             /\ UNCHANGED << alive, showVars, win, img, dragVars, offsetVars,
                             rotate, framePending >>
        ELSE /\ Handler(<< >>)
             /\ UNCHANGED << alive, showVars, win, img, dragVars, offsetVars,
                             scaleVars, rotate, framePending, style >>

ZoomIn == Clickable /\ ZoomInBody

\* handleKeydown, case 'ArrowUp'
KeydownArrowUp == keydownOn /\ ZoomInBody

\* The first render of zoomOut, derivePreviewStyle(false) at the candidate
\* scale, which getDerivedOffset() then measures
ZoomOutCandidate ==
    Derived(previewRef, offsetX, offsetY, rotate, ZoomOutScale(scaleExp - 1),
            dragging, FALSE)

\* zoomOut without the render of the old scale between the two renders of
\* the candidate scale
C20_ZoomOutPlan_twoRenders(offset) ==
    LET exp1 == scaleExp - 1
        scale1 == ZoomOutScale(exp1)
        rs3 == Derived(previewRef, offset.offsetX, offset.offsetY,
                       rotate, scale1, dragging, TRUE)
    IN  [ scaleExp |-> exp1, scale |-> scale1,
          renders |-> ZoomOutCandidate \o rs3 ]

\* zoomOut past its guard, given the offset getDerivedOffset() returns for
\* the first render: the exponent and the scale it commits and the styles
\* it writes, in order.  The candidate scale is rendered without
\* transition, the old scale is rendered again, then the candidate scale
\* is rendered with the measured offset.
ZoomOutPlan(offset) ==
    LET originalScale == scale
        exp1 == scaleExp - 1
        scale1 == ZoomOutScale(exp1)
        diff == RSub(originalScale, scale1)
        scale2 == RAdd(scale1, diff)
        rs2 == Derived(previewRef, offsetX, offsetY, rotate, scale2,
                       dragging, FALSE)
        scale3 == RSub(scale2, diff)
        rs3 == Derived(previewRef, offset.offsetX, offset.offsetY,
                       rotate, scale3, dragging, TRUE)
    IN  [ scaleExp |-> exp1, scale |-> scale3,
          renders |-> ZoomOutCandidate \o rs2 \o rs3 ]

\* zoomOut
ZoomOutBody ==
    IF RLt(MinScale, scale)
    THEN /\ scaleExp > -MinExp
         /\ LET offset == DerivedOffset(previewRef,
                                        Styled(style, ZoomOutCandidate), img,
                                        win, NoStrategy, startOffsetX,
                                        startOffsetY)
                plan == ZoomOutPlan(offset)
            IN  /\ scaleExp' = plan.scaleExp
                /\ scale' = plan.scale
                /\ offsetX' = offset.offsetX
                /\ offsetY' = offset.offsetY
                /\ style' = Styled(style, plan.renders)
                /\ Handler(<< >>)
         /\ UNCHANGED << alive, showVars, win, img, dragVars, rotate,
                         framePending >>
    ELSE /\ Handler(<< >>)
         /\ UNCHANGED << alive, showVars, win, img, dragVars, offsetVars,
                         scaleVars, rotate, framePending, style >>

ZoomOut == Clickable /\ ZoomOutBody

\* handleKeydown, case 'ArrowDown'
KeydownArrowDown == keydownOn /\ ZoomOutBody

\* resizeToOrignalImageSize
ResizeToOrignalImageSize ==
    /\ Clickable
    /\ scale' = OrignalImageSizeScale(previewRef, img, win)
    /\ scaleExp' = CeilLogRadix(scale')
    /\ offsetX' = R(0)
    /\ offsetY' = R(0)
    /\ LET rs == Derived(previewRef, R(0), R(0), rotate, scale', dragging, TRUE)
       IN  /\ style' = Styled(style, rs)
           /\ Handler(<< >>)
    /\ UNCHANGED << alive, showVars, win, img, dragVars, rotate, framePending >>

---------------------------------------------------------------------------
(* The specification *)

Next ==
    \/ DoUpdateShowTrue
    \/ SetShowProp
    \/ Close
    \/ KeydownEscape
    \/ HandleAfterLeave
    \/ Unmount
    \/ HandlePreviewMousedown
    \/ HandleMouseMove
    \/ Frame
    \/ HandleMouseUp
    \/ HandlePreviewDblclick
    \/ HandleSwitchPrev
    \/ HandleSwitchNext
    \/ KeydownArrowLeft
    \/ KeydownArrowRight
    \/ KeydownSpace
    \/ RotateCounterclockwise
    \/ RotateClockwise
    \/ ZoomIn
    \/ KeydownArrowUp
    \/ ZoomOut
    \/ KeydownArrowDown
    \/ ResizeToOrignalImageSize

Spec == Init /\ [][Next]_vars

---------------------------------------------------------------------------
(* Panning an image shown at its natural size *)

HandleMouseMoveWide == HandleMouseMoveTo(WidePointers)

\* A preview that is not controlled by its parent
Uncontrolled == { <<"undefined", FALSE>> }

InitPan == InitIn(PanViewports, Uncontrolled)

\* The preview is opened and then driven with the mouse only
NextPan ==
    \/ DoUpdateShowTrue
    \/ HandlePreviewMousedown
    \/ HandleMouseMoveWide
    \/ Frame
    \/ HandleMouseUp
    \/ HandlePreviewDblclick
    \/ HandleSwitchPrev
    \/ HandleSwitchNext
    \/ RotateCounterclockwise
    \/ RotateClockwise
    \/ ZoomIn
    \/ ZoomOut
    \/ ResizeToOrignalImageSize

SpecPan == InitPan /\ [][NextPan]_vars

---------------------------------------------------------------------------
(* Turning the image further than a quarter turn *)

RotateCounterclockwiseLong == RotateCounterclockwiseWithin(LongTurns)

RotateClockwiseLong == RotateClockwiseWithin(LongTurns)

InitTurns == InitIn(Viewports, Uncontrolled)

NextTurns ==
    \/ DoUpdateShowTrue
    \/ HandlePreviewMousedown
    \/ HandleMouseMoveWide
    \/ Frame
    \/ HandleMouseUp
    \/ RotateCounterclockwiseLong
    \/ RotateClockwiseLong
    \/ ZoomIn
    \/ ZoomOut

SpecTurns == InitTurns /\ [][NextTurns]_vars

---------------------------------------------------------------------------
(* The boundary clamp on arbitrary inputs *)

\* translateX / translateY of the measured element
ClampTranslations == { R(-72), R(0), R(72) }

\* startOffsetX / startOffsetY
ClampStartOffsets == { R(-24), R(0), R(24) }

\* offsetX, offsetY before the call
ClampPriorOffsets == { << R(0), R(0) >>, << R(24), R(-24) >> }

\* A drag is in progress on a shown preview; the element's translation, the
\* offset, the start offset, the pointer, the scale and the rotation are
\* arbitrary.
InitClamp ==
    /\ alive = TRUE
    /\ showProp = "undefined" /\ uncontrolledShow = TRUE
    /\ displayed = TRUE
    /\ keydownOn = TRUE
    /\ win \in Viewports \cup PanViewports
    /\ img \in ImageIds
    /\ \E o \in ClampPriorOffsets : offsetX = o[1] /\ offsetY = o[2]
    /\ startOffsetX \in ClampStartOffsets /\ startOffsetY \in ClampStartOffsets
    /\ mouseDownClientX = R(0) /\ mouseDownClientY = R(0)
    /\ dragging = TRUE
    /\ scaleExp \in 0 .. MaxExp
    /\ scale = ZoomInScale(MaxScale(TRUE, img, win), scaleExp)
    /\ rotate \in { 0, 90 }
    /\ mouseListeners = TRUE
    /\ framePending = FALSE
    /\ pointer \in WidePointers
    /\ \E tx \in ClampTranslations, ty \in ClampTranslations :
           style = PreviewStyle(tx, ty, rotate, scale, TRUE, TRUE)
    /\ calls = << >>

\* The clamp is called with a direction hint by handleMouseUp and without
\* one by zoomOut
NextClamp ==
    \/ HandleMouseUp
    \/ KeydownArrowDown

SpecClamp == InitClamp /\ [][NextClamp]_vars

\* A specification of the end of a drag of the wide image, at its natural
\* size in a viewport 1000 wide, upright (box 1200 wide) or turned (box
\* 1200 high).

ReleaseViewports == { [w |-> 1000, h |-> 144] }

\* The offset at the start of the drag, on both axes
ReleaseStartOffsets == { -100, -50, 0, 50, 100 }

\* clientX = clientY of the pointer-down event and of the last pointer move
ReleasePointers == { 0, 50, 100 }

\* A drag of the wide image is in progress; the frame callback of the last
\* pointer move has run (the element is drawn at the offset) or not (it is
\* drawn at the offset the drag started at).
InitRelease ==
    /\ alive = TRUE
    /\ showProp = "undefined" /\ uncontrolledShow = TRUE
    /\ displayed = TRUE
    /\ keydownOn = TRUE
    /\ win \in ReleaseViewports
    /\ img = 2
    /\ \E s \in ReleaseStartOffsets :
           startOffsetX = R(s) /\ startOffsetY = R(s)
    /\ \E d \in ReleasePointers :
           mouseDownClientX = R(d) /\ mouseDownClientY = R(d)
    /\ \E p \in ReleasePointers : pointer = << p, p >>
    /\ offsetX = RSub(R(pointer[1]), startX)
    /\ offsetY = RSub(R(pointer[2]), startY)
    /\ dragging = TRUE
    /\ scaleExp \in { 0, 1 }
    /\ scale = OrignalImageSizeScale(TRUE, img, win)
    /\ rotate \in { 0, 90 }
    /\ mouseListeners = TRUE
    /\ framePending \in BOOLEAN
    /\ style = IF framePending
               THEN PreviewStyle(startOffsetX, startOffsetY, rotate, scale,
                                 TRUE, TRUE)
               ELSE PreviewStyle(offsetX, offsetY, rotate, scale, TRUE, TRUE)
    /\ calls = << >>

NextRelease ==
    \/ Frame
    \/ HandleMouseUp

SpecRelease == InitRelease /\ [][NextRelease]_vars

---------------------------------------------------------------------------
(* Properties *)

\* The bounding box of the image as the transform state places it: centred
\* in the viewport, scaled, turned and translated by the offset
TransformedBox ==
    BoundingClientRect(PreviewStyle(offsetX, offsetY, rotate, scale, FALSE, TRUE),
                       img, win)

\* The box b and the viewport vp have a point in common
Overlaps(b, vp) ==
    /\ RLt(R(0), b.right) /\ RLt(b.left, R(vp.w))
    /\ RLt(R(0), b.bottom) /\ RLt(b.top, R(vp.h))

\* C1: in every reachable state of a shown preview with no drag in progress,
\* the bounding box of the transformed image overlaps the viewport: the
\* image is never entirely out of view.
C1_NeverOutOfView ==
    (alive /\ mergedShow /\ ~dragging) => Overlaps(TransformedBox, win)

\* max(3, 2 * naturalHeight / (viewportHeight - 32),
\*        2 * naturalWidth / (viewportWidth - 32))
ClaimedMaxScale(i, vp) ==
    RMax(RMax(R(3), RDiv(R(2 * Images[i].h), R(vp.h - 32))),
         RDiv(R(2 * Images[i].w), R(vp.w - 32)))

\* C2: a zoomIn call (toolbar or ArrowUp) never produces a scale above
\* max(3, 2*naturalHeight/(viewportHeight-32), 2*naturalWidth/(viewportWidth-32)),
\* and a zoomOut call (toolbar or ArrowDown) never produces a scale below 0.5.
C2_ZoomWithinLimits ==
    [][ /\ ((ZoomIn \/ KeydownArrowUp) /\ scale' # scale) =>
              RLe(scale', ClaimedMaxScale(img, win))
        /\ ((ZoomOut \/ KeydownArrowDown) /\ scale' # scale) =>
              RLe(MinScale, scale') ]_vars

\* C2: zoomIn has been called until the cap applied: 1.5 ** scaleExp is
\* above maxScale and scale is maxScale.
C2_Witness ==
    /\ alive /\ mergedShow
    /\ RLt(ClaimedMaxScale(img, win), RadixPow(scaleExp))
    /\ scale = ClaimedMaxScale(img, win)

\* C3: 0.5 <= scale <= maxScale in every reachable state, whatever
\* interleaving of zoomIn, zoomOut, double click, resize to original size,
\* switch, close and reopen led to it.
C3_ScaleInRange ==
    /\ RLe(MinScale, scale)
    /\ RLe(scale, ClaimedMaxScale(img, win))

\* C4: a step of handleSwitchPrev or handleSwitchNext ends with scale = 1,
\* scaleExp = 0 and rotate = 0, and has invoked its hook, onPrev or onNext,
\* exactly once and no other hook.
C4_SwitchResets ==
    [][ /\ HandleSwitchPrev =>
              /\ scale' = R(1) /\ scaleExp' = 0 /\ rotate' = 0
              /\ calls' = << "onPrev" >>
        /\ HandleSwitchNext =>
              /\ scale' = R(1) /\ scaleExp' = 0 /\ rotate' = 0
              /\ calls' = << "onNext" >>
      ]_vars

\* C4: handleSwitchNext has run on a zoomed and turned image: the element
\* still shows the old transform, the transform state is reset.
C4_Witness ==
    /\ calls = << "onNext" >>
    /\ style.rot = 90 /\ style.sc = R(3)
    /\ scale = R(1) /\ scaleExp = 0 /\ rotate = 0

\* C5: a step of the ArrowLeft or ArrowRight key binding ends, like the
\* switch actions, with scale = 1, scaleExp = 0 and rotate = 0.
C5_KeyboardSwitchResets ==
    [][ (KeydownArrowLeft \/ KeydownArrowRight) =>
            (scale' = R(1) /\ scaleExp' = 0 /\ rotate' = 0) ]_vars

\* The box getDerivedOffset measures in handleMouseUp
MeasuredBox == BoundingClientRect(style, img, win)

\* (boxWidth - viewportWidth) / 2 and (boxHeight - viewportHeight) / 2
HalfOverflowX(b, vp) == RDiv(RSub(b.width, R(vp.w)), R(2))

HalfOverflowY(b, vp) == RDiv(RSub(b.height, R(vp.h)), R(2))

\* The box getDerivedOffset measures in zoomOut: the element rendered at
\* the candidate scale
ZoomOutBox ==
    BoundingClientRect(PreviewStyle(offsetX, offsetY, rotate,
                                    ZoomOutScale(scaleExp - 1), dragging, FALSE),
                       img, win)

\* The step commits offset 0 on each axis on which the box b fits the viewport
FitsMeansZero(b) ==
    /\ RLe(b.width, R(win.w)) => offsetX' = R(0)
    /\ RLe(b.height, R(win.h)) => offsetY' = R(0)

\* C6: when the clamp measures a box that is not wider than the viewport it
\* returns offsetX = 0, and offsetY = 0 for a box that is not higher,
\* whatever the offset, the start offset, the drag delta and the direction
\* hint are: in handleMouseUp, which passes a hint, and in zoomOut, which
\* passes none.
C6_FitsMeansZero ==
    [][ /\ HandleMouseUp => FitsMeansZero(MeasuredBox)
        /\ (KeydownArrowDown /\ RLt(MinScale, scale)) =>
               FitsMeansZero(ZoomOutBox) ]_vars

\* C6: handleMouseUp has committed offsetX = 0 for a turned image, narrower
\* than the viewport at scale 3, of a drag that started at offset 24.
C6_Witness ==
    /\ ~mouseListeners /\ ~dragging
    /\ scale = R(3) /\ rotate = 90
    /\ RLe(TransformedBox.width, R(win.w))
    /\ startOffsetX = R(24)
    /\ offsetX = R(0)

\* The step commits the offset that closes the gap the box b leaves on an
\* axis on which it is larger than the viewport
GapClosed(b) ==
    LET wide == RLt(R(win.w), b.width)
        high == RLt(R(win.h), b.height)
    IN  /\ (wide /\ RLt(R(0), b.left)) =>
               offsetX' = HalfOverflowX(b, win)
        /\ (wide /\ RLe(b.left, R(0)) /\ RLt(b.right, R(win.w))) =>
               offsetX' = RNeg(HalfOverflowX(b, win))
        /\ (high /\ RLt(R(0), b.top)) =>
               offsetY' = HalfOverflowY(b, win)
        /\ (high /\ RLe(b.top, R(0)) /\ RLt(b.bottom, R(win.h))) =>
               offsetY' = RNeg(HalfOverflowY(b, win))

\* C7: when the clamp measures a box wider than the viewport with its left
\* edge right of 0 it returns offsetX = (boxWidth - viewportWidth) / 2, and
\* with its left edge at or left of 0 and its right edge left of the
\* viewport's it returns the negation of that; the same for offsetY with
\* heights, top and bottom; the start offset, the drag delta and the
\* direction hint play no part, in handleMouseUp and in zoomOut.
C7_GapClosure ==
    [][ /\ HandleMouseUp => GapClosed(MeasuredBox)
        /\ (KeydownArrowDown /\ RLt(MinScale, scale)) =>
               GapClosed(ZoomOutBox) ]_vars

\* C7: handleMouseUp has closed a gap at the bottom of a turned image at
\* scale 3 although the drag started at a positive offset.
C7_Witness ==
    /\ ~mouseListeners /\ ~dragging
    /\ scale = R(3) /\ rotate = 90
    /\ RLt(R(win.h), TransformedBox.height)
    /\ startOffsetY = R(24)
    /\ offsetY = RNeg(HalfOverflowY(TransformedBox, win))

\* What handleMouseUp would commit if the button were pressed and released
\* without a move in a state with the offset (ox, oy): the element is
\* rendered at that offset, the start offset is that offset and the deltas
\* are 0.
Reclamped(preview, ox, oy, rot, sc, i, vp) ==
    DerivedOffset(preview, PreviewStyle(ox, oy, rot, sc, TRUE, TRUE), i, vp,
                  MoveStrategy(R(0), R(0), R(0), R(0)), ox, oy)

\* The offset (ox, oy) is a fixed point of the clamp
FixedPoint(preview, ox, oy, rot, sc, i, vp) ==
    LET again == Reclamped(preview, ox, oy, rot, sc, i, vp)
    IN  again.offsetX = ox /\ again.offsetY = oy

\* C8: an offset the clamp has just committed, in handleMouseUp or in a
\* zoomOut that changes the scale, is a fixed point of the clamp: measured
\* again at that offset, the clamp returns the same offset.
C8_ClampIdempotent ==
    [][ (HandleMouseUp \/ (RLt(MinScale, scale) /\ (ZoomOut \/ KeydownArrowDown)))
            => FixedPoint(Mounted(alive', Merged(showProp', uncontrolledShow'),
                                  displayed'),
                          offsetX', offsetY', rotate', scale', img', win') ]_vars

\* C9: rotateClockwise adds exactly 90 to the rotation counter and
\* rotateCounterclockwise subtracts exactly 90, with no modulo; neither
\* changes scale, scaleExp or the offset; the counter stays a multiple of 90.
C9_QuarterTurns ==
    [][ /\ RotateClockwiseLong =>
              /\ rotate' = rotate + 90
              /\ UNCHANGED << scale, scaleExp, offsetX, offsetY >>
        /\ RotateCounterclockwiseLong =>
              /\ rotate' = rotate - 90
              /\ UNCHANGED << scale, scaleExp, offsetX, offsetY >>
        /\ rotate' % 90 = 0 ]_vars

\* C9: a zoomed and panned image has been turned clockwise four times: the
\* counter is 360, not 0.
C9_Witness ==
    /\ rotate = 360
    /\ scale = R(3)
    /\ offsetX = R(48)

\* C10: the keydown listener is subscribed exactly while the component is
\* mounted and the merged show flag is true.
C10_ListenerIffShown ==
    keydownOn <=> (alive /\ mergedShow)

\* A specification of the scale handlers in viewports where the image's
\* natural size is below the viewport (144: both ratios under 1), equal to
\* it (112: ratio 1), and above it (96: ratio 5/4, 72: ratio 2).
ScaleViewports ==
    { [w |-> 144, h |-> 144], [w |-> 112, h |-> 144],
      [w |-> 96, h |-> 144], [w |-> 72, h |-> 144] }

InitScale == InitIn(ScaleViewports, Uncontrolled)

NextScale ==
    \/ DoUpdateShowTrue
    \/ HandlePreviewMousedown
    \/ HandleMouseMove
    \/ Frame
    \/ HandleMouseUp
    \/ HandlePreviewDblclick
    \/ RotateClockwise
    \/ ZoomIn
    \/ KeydownArrowUp
    \/ ZoomOut
    \/ KeydownArrowDown
    \/ ResizeToOrignalImageSize

SpecScale == InitScale /\ [][NextScale]_vars

\* A specification of the scale handlers for the gallery's image in two of
\* the viewports above and for the photograph in a viewport of 1000 x 800;
\* the pointer is pressed on the gallery's image only

ZoomConfigs ==
    { [win |-> [w |-> 96, h |-> 144], img |-> 1],
      [win |-> [w |-> 72, h |-> 144], img |-> 1],
      [win |-> [w |-> 1000, h |-> 800], img |-> 3] }

InitZoom ==
    /\ alive = TRUE
    /\ showProp = "undefined" /\ uncontrolledShow = FALSE
    /\ displayed = FALSE
    /\ keydownOn = FALSE
    /\ \E c \in ZoomConfigs : win = c.win /\ img = c.img
    /\ offsetX = R(0) /\ offsetY = R(0)
    /\ startOffsetX = R(0) /\ startOffsetY = R(0)
    /\ mouseDownClientX = R(0) /\ mouseDownClientY = R(0)
    /\ dragging = FALSE
    /\ scaleExp = 0 /\ scale = R(1) /\ rotate = 0
    /\ mouseListeners = FALSE
    /\ framePending = FALSE
    /\ pointer = NoPointer
    /\ style = FreshStyle
    /\ calls = << >>

NextZoom ==
    \/ DoUpdateShowTrue
    \/ (img \in ImageIds /\ HandlePreviewMousedown)
    \/ HandleMouseMove
    \/ Frame
    \/ HandleMouseUp
    \/ HandlePreviewDblclick
    \/ RotateClockwise
    \/ ZoomIn
    \/ KeydownArrowUp
    \/ ZoomOut
    \/ KeydownArrowDown
    \/ ResizeToOrignalImageSize

SpecZoom == InitZoom /\ [][NextZoom]_vars

\* Every variable but the record of the hooks the last handler invoked
stateVars ==
    << alive, showProp, uncontrolledShow, displayed, keydownOn, win, img,
       offsetX, offsetY, startOffsetX, startOffsetY,
       mouseDownClientX, mouseDownClientY, dragging,
       scaleExp, scale, rotate, mouseListeners, framePending, pointer, style >>

\* close() on a viewport that is not shown invokes no hook and changes no
\* state
CloseOnClosedIsNoOp ==
    (Close /\ ~mergedShow) => (calls' = << >> /\ UNCHANGED stateVars)

\* C11, as claimed: close() on a viewport that is not shown is a no-op; on
\* a shown viewport it invokes onClose once, emits show = false once and
\* leaves the viewport not shown.
C11_CloseOnce ==
    [][ /\ CloseOnClosedIsNoOp
        /\ (Close /\ mergedShow) =>
               /\ calls' = << "onClose", "onUpdateShow(false)" >>
               /\ ~mergedShow' ]_vars

\* C11, amended: close() on a viewport that is not shown is a no-op; on a
\* shown viewport it invokes onClose once and emits show = false once, and
\* it leaves the viewport not shown if the preview is uncontrolled or its
\* parent answers by setting props.show to false.
C11_CloseOnceUnlessParentKeepsShow ==
    [][ /\ CloseOnClosedIsNoOp
        /\ (Close /\ mergedShow) =>
               /\ calls' = << "onClose", "onUpdateShow(false)" >>
               /\ uncontrolledShow' = FALSE
               /\ (showProp = "undefined" \/ showProp' = "false") =>
                      ~mergedShow' ]_vars

\* C11: close() has run on a shown, controlled viewport whose parent set
\* props.show to false: the hooks were invoked and the viewport is leaving.
C11_Witness ==
    /\ alive /\ showProp = "false" /\ displayed
    /\ calls = << "onClose", "onUpdateShow(false)" >>

\* C12: closing the viewport while a drag is in progress resets the drag
\* flag and leaves no mousemove/mouseup listener and no pending frame
\* callback behind.
C12_CloseCancelsDrag ==
    [][ ((Close \/ KeydownEscape) /\ mergedShow /\ dragging) =>
            (~dragging' /\ ~mouseListeners' /\ ~framePending') ]_vars

\* C13: whenever the preview opens, for the first time or again, the
\* transform state is scale 1, exponent 0, rotation 0 and offset (0, 0).
C13_OpenResetsTransform ==
    [][ (~mergedShow /\ mergedShow') =>
            /\ scale' = R(1) /\ scaleExp' = 0 /\ rotate' = 0
            /\ offsetX' = R(0) /\ offsetY' = R(0) ]_vars

\* The scale that shows image i at its natural size in viewport vp, as
\* claimed: 1 if the natural height over the viewport height less 32 and
\* the natural width over the viewport width less 32 are both below 1, else
\* the larger of the two
NativeScale(i, vp) ==
    LET byHeight == RDiv(R(Images[i].h), R(vp.h - 32))
        byWidth == RDiv(R(Images[i].w), R(vp.w - 32))
    IN  IF RLt(byHeight, R(1)) /\ RLt(byWidth, R(1))
        THEN R(1)
        ELSE IF RLt(byHeight, byWidth) THEN byWidth ELSE byHeight

\* The scale a double click leaves, from scale s with natural-size scale n
Toggle(s, n) == IF s = n THEN R(1) ELSE n

\* C14: a double click sets the scale to 1 if it equals the natural-size
\* scale and to the natural-size scale otherwise; a second double click
\* after one made at scale 1 or at the natural-size scale gives the first
\* scale back; the exponent, the offset and the rotation do not change.
C14_DblclickToggles ==
    [][ HandlePreviewDblclick =>
          LET n == NativeScale(img, win)
          IN  /\ scale' = Toggle(scale, n)
              /\ (scale \in { R(1), n }) => Toggle(scale', n) = scale
              /\ UNCHANGED << scaleExp, offsetX, offsetY, rotate >> ]_vars

\* C14: a double click has brought a zoomed, panned and turned image to
\* its natural size, which is not scale 1; the exponent, the offset and the
\* rotation are those of before.
C14_Witness ==
    /\ alive /\ mergedShow /\ ~dragging
    /\ scale = NativeScale(img, win) /\ scale # R(1)
    /\ scaleExp = 3 /\ rotate = 90 /\ offsetY # R(0)
    /\ style.sc = scale

\* e is the smallest integer with 1.5 ^ e >= n
LeastExponent(e, n) ==
    /\ RLe(n, RadixPow(e))
    /\ RLt(RadixPow(e - 1), n)

\* The scale and the exponent are those resizeToOriginalSize leaves
AtNativeSize ==
    /\ scale = NativeScale(img, win)
    /\ LeastExponent(scaleExp, scale)

\* C15: resizeToOriginalSize sets the scale to the natural-size scale and
\* the exponent to the smallest e with 1.5 ^ e >= that scale, resets the
\* offset to (0, 0) and keeps the rotation; a zoomIn that follows gives a
\* scale >= the natural-size scale, a zoomOut that follows a scale below it.
C15_ResizeToOriginalSize ==
    [][ /\ ResizeToOrignalImageSize =>
              /\ AtNativeSize'
              /\ offsetX' = R(0) /\ offsetY' = R(0)
              /\ rotate' = rotate
        /\ (AtNativeSize /\ (ZoomIn \/ KeydownArrowUp)) =>
              RLe(NativeScale(img, win), scale')
        /\ (AtNativeSize /\ (ZoomOut \/ KeydownArrowDown)) =>
              RLt(scale', NativeScale(img, win)) ]_vars

\* C15: a turned image stands at its natural size, twice the fitted size,
\* with exponent 2 (1.5 < 2 <= 2.25) and no offset.
C15_Witness ==
    /\ alive /\ mergedShow /\ ~dragging
    /\ AtNativeSize /\ scale = R(2) /\ scaleExp = 2
    /\ rotate = 90 /\ offsetX = R(0) /\ offsetY = R(0)
    /\ style.sc = scale /\ style.tx = R(0)

\* The offset (ox, oy) is the pointer position p less the pointer-down
\* position plus the offset at the start of the drag
Tracks(ox, oy, p) ==
    /\ ox = RAdd(RSub(R(p[1]), mouseDownClientX), startOffsetX)
    /\ oy = RAdd(RSub(R(p[2]), mouseDownClientY), startOffsetY)

\* A pointer-move event is handled
PointerMoves == HandleMouseMoveTo(WidePointers)

\* C16: after every pointer move of a drag the offset is the
\* pointer position less the pointer-down position plus the offset at the
\* start of the drag; pointer-down does not change the offset; and as long
\* as the drag goes on no step gives the offset another value: it is
\* clamped at pointer-up only.
C16_DragTracksPointer ==
    [][ /\ PointerMoves => Tracks(offsetX', offsetY', pointer')
        /\ HandlePreviewMousedown => UNCHANGED << offsetX, offsetY >>
        /\ (mouseListeners /\ mouseListeners') =>
               \/ UNCHANGED << offsetX, offsetY >>
               \/ Tracks(offsetX', offsetY', pointer') ]_vars

\* The offset (ox, oy) leaves no gap between the box b and the viewport vp:
\* on each axis it is 0 if the box is not larger than the viewport, and at
\* most half the overflow, either way, if it is
NoGap(ox, oy, b, vp) ==
    /\ IF RLe(b.width, R(vp.w))
       THEN ox = R(0)
       ELSE /\ RLe(RNeg(HalfOverflowX(b, vp)), ox)
            /\ RLe(ox, HalfOverflowX(b, vp))
    /\ IF RLe(b.height, R(vp.h))
       THEN oy = R(0)
       ELSE /\ RLe(RNeg(HalfOverflowY(b, vp)), oy)
            /\ RLe(oy, HalfOverflowY(b, vp))

\* C17: the offset handleMouseUp commits leaves no gap, whatever pointer
\* moves and frame callbacks came before it, a pointer-up that comes before
\* the frame callback of the last move included.
C17_NoGapAfterPointerUp ==
    [][ HandleMouseUp =>
          NoGap(offsetX', offsetY', BoundingClientRect(style', img', win'),
                win') ]_vars

\* The no-gap case on the X axis: the box b is wider than the viewport vp
\* and reaches both its left and its right edge
CoversWidth(b, vp) ==
    /\ RLt(R(vp.w), b.width)
    /\ RLe(b.left, R(0)) /\ RLe(R(vp.w), b.right)

\* The same on the Y axis
CoversHeight(b, vp) ==
    /\ RLt(R(vp.h), b.height)
    /\ RLe(b.top, R(0)) /\ RLe(R(vp.h), b.bottom)

\* The offset claimed for the no-gap case, on an axis with half overflow
\* half, start offset start and delta = pointer-down - pointer-up: towards
\* Left or Top if delta > 0, else towards Right or Bottom
NoGapOffset(half, start, delta) ==
    LET moved == RSub(start, delta)
    IN  IF RLt(R(0), delta)
        THEN IF RLt(moved, RNeg(half)) THEN RNeg(half) ELSE moved
        ELSE IF RLt(half, moved) THEN half ELSE moved

\* handleMouseUp commits the claimed offset on each axis in the no-gap case
NoGapCase ==
    HandleMouseUp =>
        /\ CoversWidth(MeasuredBox, win) =>
               offsetX' = NoGapOffset(HalfOverflowX(MeasuredBox, win),
                                      startOffsetX,
                                      RSub(mouseDownClientX, R(pointer[1])))
        /\ CoversHeight(MeasuredBox, win) =>
               offsetY' = NoGapOffset(HalfOverflowY(MeasuredBox, win),
                                      startOffsetY,
                                      RSub(mouseDownClientY, R(pointer[2])))

\* The example: box 1200 wide in a viewport 1000 wide, no gap, the drag
\* started at offset -100 and pointer-down - pointer-up = 50
Example1200 ==
    /\ MeasuredBox.width = R(1200) /\ win.w = 1000
    /\ CoversWidth(MeasuredBox, win)
    /\ startOffsetX = R(-100)
    /\ RSub(mouseDownClientX, R(pointer[1])) = R(50)

ZoomOutOffset(sOffX, sOffY) ==
    DerivedOffset(previewRef, Styled(style, ZoomOutCandidate), img, win,
                  NoStrategy, sOffX, sOffY)

\* C19: the offset a zoomOut commits is determined by the box it measures,
\* the viewport and the offset before the call.  A click on the image
\* without a move, at an offset the clamp keeps, changes none of these and
\* makes that offset the start of the last drag: the zoomOut commits what
\* it would commit after such a click.
C19_ClampStateless ==
    [][ ( /\ ZoomOut \/ KeydownArrowDown
          /\ RLt(MinScale, scale)
          /\ FixedPoint(previewRef, offsetX, offsetY, rotate, scale, img, win) )
        => LET afterClick == ZoomOutOffset(offsetX, offsetY)
           IN  offsetX' = afterClick.offsetX /\ offsetY' = afterClick.offsetY
      ]_vars

\* The style r shows scale sc at the offset (ox, oy) and rotation rot, with
\* the transition enabled or not
Renders(r, sc, ox, oy, rot, transition) ==
    /\ r.sc = sc /\ r.tx = ox /\ r.ty = oy /\ r.rot = rot
    /\ r.transition = transition

\* The three renders of a zoomOut to the candidate scale, the last with the
\* transition enabled or not
ThreeRenders(candidate, lastTransition) ==
    LET clamped == ZoomOutOffset(startOffsetX, startOffsetY)
        rs == ZoomOutPlan(clamped).renders
    IN  /\ Len(rs) = 3
        /\ Renders(rs[1], candidate, offsetX, offsetY, rotate, FALSE)
        /\ Renders(rs[2], scale, offsetX, offsetY, rotate, FALSE)
        /\ Renders(rs[3], candidate, clamped.offsetX, clamped.offsetY,
                   rotate, lastTransition)
        /\ offsetX' = clamped.offsetX /\ offsetY' = clamped.offsetY
        /\ style' = rs[3]

\* A zoomOut step that is a no-op unless scale > 0.5, and that otherwise
\* takes 1 off the exponent, commits the candidate scale max(0.5, 1.5 ^
\* exponent), keeps the rotation and writes the three renders
ZoomOutAsClaimed(lastTransition) ==
    (ZoomOut \/ KeydownArrowDown) =>
        IF RLt(MinScale, scale)
        THEN LET candidate == RMax(MinScale, RadixPow(scaleExp - 1))
             IN  /\ scaleExp' = scaleExp - 1
                 /\ scale' = candidate
                 /\ rotate' = rotate
                 /\ ThreeRenders(candidate, lastTransition)
        ELSE UNCHANGED stateVars

ZoomInStep == ZoomIn \/ KeydownArrowUp

\* The example: the photograph of 2000 x 1600 in the viewport of 1000 x 800,
\* at scale 1 with exponent 0
Example2000 ==
    /\ win = [w |-> 1000, h |-> 800]
    /\ Images[img] = [w |-> 2000, h |-> 1600]
    /\ scale = R(1) /\ scaleExp = 0

\* C21: a zoomIn at a scale below maxScale adds exactly 1 to the exponent
\* and sets the scale to min(maxScale, 1.5 ^ exponent), leaving the offset
\* and the rotation unchanged; at a scale >= maxScale it changes nothing,
\* the exponent included.  In the example it gives exponent 1, scale 1.5.
C21_ZoomInStep ==
    [][ ZoomInStep =>
          LET maxScale == ClaimedMaxScale(img, win)
          IN  /\ IF RLt(scale, maxScale)
                 THEN /\ scaleExp' = scaleExp + 1
                      /\ scale' = IF RLt(RadixPow(scaleExp'), maxScale)
                                  THEN RadixPow(scaleExp') ELSE maxScale
                      /\ UNCHANGED << offsetX, offsetY, rotate >>
                 ELSE UNCHANGED stateVars
              /\ Example2000 => (scaleExp' = 1 /\ scale' = RadixPow(1)) ]_vars

C21_Witness ==
    /\ win = [w |-> 1000, h |-> 800]
    /\ Images[img] = [w |-> 2000, h |-> 1600]
    /\ scaleExp = 1 /\ scale = RadixPow(1)
    /\ style.sc = RadixPow(1)
    /\ calls = << >>

\* A zoomOut step, from the toolbar or the ArrowDown key
ZoomOutStep == ZoomOut \/ KeydownArrowDown

\* C22: in every reachable state a zoomIn never leaves the scale smaller
\* than it was before the call and a zoomOut never leaves it larger, also
\* when the scale was last set by the double click (the exponent is stale)
C22_ZoomMonotone ==
    [][ /\ ZoomInStep => RLe(scale, scale')
        /\ ZoomOutStep => RLe(scale', scale) ]_vars

---------------------------------------------------------------------------
(* Viewports no larger than BLEEDING *)

\* Viewports with a dimension of 32, of 16, or both, and one above 32
NarrowViewports ==
    { [w |-> 32, h |-> 144], [w |-> 16, h |-> 144],
      [w |-> 96, h |-> 32], [w |-> 96, h |-> 16],
      [w |-> 16, h |-> 32], [w |-> 96, h |-> 144] }

InitNarrow == InitIn(NarrowViewports, Uncontrolled)

\* The handlers that set the scale without measuring the element.
\* resizeToOrignalImageSize runs where the exponent it computes is a number
\* (the logarithm of Infinity is Infinity).
NextNarrow ==
    \/ DoUpdateShowTrue
    \/ Close
    \/ HandlePreviewDblclick
    \/ RotateClockwise
    \/ ZoomIn
    \/ KeydownArrowUp
    \/ (Finite(OrignalImageSizeScale(previewRef, img, win))
          /\ ResizeToOrignalImageSize)

SpecNarrow == InitNarrow /\ [][NextNarrow]_vars

\* A ratio that divides by max(1, dimension - BLEEDING)
GuardedRatio(natural, dimension) ==
    RDiv(R(natural),
         R(IF dimension - BLEEDING < 1 THEN 1 ELSE dimension - BLEEDING))

\* maxScale and nativeScale computed from guarded ratios
GuardedMaxScale(i, vp) ==
    RMax(RMax(R(3), RMul(R(2), GuardedRatio(Images[i].h, vp.h))),
         RMul(R(2), GuardedRatio(Images[i].w, vp.w)))

GuardedNativeScale(i, vp) ==
    LET heightScale == GuardedRatio(Images[i].h, vp.h)
        widthScale == GuardedRatio(Images[i].w, vp.w)
    IN  IF RLt(heightScale, R(1)) /\ RLt(widthScale, R(1))
        THEN R(1)
        ELSE RMax(heightScale, widthScale)

\* A step that commits a scale computed from the viewport's size
CommitsScale ==
    ZoomInStep \/ HandlePreviewDblclick \/ ResizeToOrignalImageSize

\* C23: every ratio derived from the viewport (in maxScale and in
\* nativeScale) divides by max(1, dimension - 32), so that for widths or
\* heights <= 32 nothing is divided by a zero or negative denominator, and
\* the scale zoomIn, the double click and resizeToOriginalSize commit is
\* finite and positive
C23_GuardedRatios ==
    [][ CommitsScale =>
          /\ MaxScale(previewRef, img, win) = GuardedMaxScale(img, win)
          /\ OrignalImageSizeScale(previewRef, img, win)
                = GuardedNativeScale(img, win)
          /\ Finite(scale')
          /\ RLt(R(0), scale') ]_vars

====
